---- MODULE Spec2Model ----
(***************************************************************************)
(* A model of the per-key leaky-bucket rate limiter (rateLimiter.ts).      *)
(*                                                                         *)
(* A JavaScript number is modelled as a tagged record: a finite value in   *)
(* fixed point (val / Scale), NaN, +Infinity or -Infinity, with the IEEE   *)
(* rules for the arithmetic and comparisons the limiter uses.  A string is *)
(* a sequence of characters.  The limiter is a value: every operation      *)
(* takes a limiter and returns a new one, and the caller threads it.       *)
(***************************************************************************)
EXTENDS Integers, Sequences, FiniteSets, TLC

VARIABLES limiter, input, call, ret, shadow, heap, history, shared

vars == <<limiter, input, call, ret, shadow, heap, history, shared>>

(***************************************************************************)
(* Bounds of the model.                                                    *)
(***************************************************************************)
\* timestamps range over the whole time units -1 .. MaxTime
MaxTime == 1
\* idle windows range over the whole time units -1 .. MaxIdle
MaxIdle == 1
\* a limiter without a finite capacity takes requests until a level reaches MaxLevel
MaxLevel == 3
\* a burst is at most MaxBurst requests long
MaxBurst == 4
\* the writers of a shared limiter publish at most MaxWrites limiters
MaxWrites == 3

(***************************************************************************)
(* Numbers.                                                                *)
(***************************************************************************)
\* fixed-point resolution of a finite number: the value is val / Scale
Scale == 2

Fin(n) == [tag |-> "fin", val |-> n]
NaN == [tag |-> "nan", val |-> 0]
PosInf == [tag |-> "inf", val |-> 1]
NegInf == [tag |-> "inf", val |-> -1]

Zero == Fin(0)
One == Fin(Scale)
\* the whole number n
Whole(n) == Fin(n * Scale)

IsNaN(x) == x.tag = "nan"
isFinite(x) == x.tag = "fin"

Sgn(n) == IF n > 0 THEN 1 ELSE IF n < 0 THEN -1 ELSE 0

Neg(x) == [x EXCEPT !.val = -x.val]

\* a + b
Add(a, b) ==
  IF IsNaN(a) \/ IsNaN(b) THEN NaN
  ELSE IF isFinite(a) /\ isFinite(b) THEN Fin(a.val + b.val)
  ELSE IF ~isFinite(a) /\ ~isFinite(b) THEN (IF a.val = b.val THEN a ELSE NaN)
  ELSE IF ~isFinite(a) THEN a
  ELSE b

\* a - b
Sub(a, b) == Add(a, Neg(b))

\* a * b
Mul(a, b) ==
  IF IsNaN(a) \/ IsNaN(b) THEN NaN
  ELSE IF isFinite(a) /\ isFinite(b) THEN Fin((a.val * b.val) \div Scale)
  ELSE IF Sgn(a.val) * Sgn(b.val) = 0 THEN NaN
  ELSE IF Sgn(a.val) * Sgn(b.val) > 0 THEN PosInf
  ELSE NegInf

\* a < b
Lt(a, b) ==
  /\ ~IsNaN(a)
  /\ ~IsNaN(b)
  /\ IF a.tag = b.tag THEN a.val < b.val
     ELSE IF ~isFinite(a) THEN a.val < 0
     ELSE b.val > 0

\* a > b
Gt(a, b) == Lt(b, a)

\* a <= b
Le(a, b) == ~IsNaN(a) /\ ~IsNaN(b) /\ ~Lt(b, a)

\* a >= b
Ge(a, b) == Le(b, a)

\* Math.max(a, b)
MathMax(a, b) ==
  IF IsNaN(a) \/ IsNaN(b) THEN NaN
  ELSE IF Lt(a, b) THEN b
  ELSE a

(***************************************************************************)
(* Strings.                                                                *)
(***************************************************************************)
IsSpace(c) == c = " "

RECURSIVE trimStart(_)
trimStart(s) ==
  IF s # <<>> /\ IsSpace(Head(s)) THEN trimStart(Tail(s)) ELSE s

RECURSIVE trimEnd(_)
trimEnd(s) ==
  IF s # <<>> /\ IsSpace(s[Len(s)]) THEN trimEnd(SubSeq(s, 1, Len(s) - 1)) ELSE s

\* String.prototype.trim
trim(s) == trimEnd(trimStart(s))

(***************************************************************************)
(* The limiter's functions.                                                *)
(***************************************************************************)
NoError == "ok"
CapacityError == "Capacity must be positive"
LeakRateError == "Leak rate must be positive"
UserIdError == "User ID must be a non-empty string"
TimestampError == "Timestamp must be a finite number"

\* new Map<string, UserBucket>()
EmptyMap == [k \in {} |-> Zero]

\* map.has(k)
Has(buckets, userId) == userId \in DOMAIN buckets

\* new Map(buckets).set(userId, bucket)
MapSet(buckets, userId, bucket) ==
  [k \in DOMAIN buckets \cup {userId} |-> IF k = userId THEN bucket ELSE buckets[k]]

UserBucket(currentLevel, lastUpdateTime) ==
  [currentLevel |-> currentLevel, lastUpdateTime |-> lastUpdateTime]

RateLimiter(capacity, leakRate, buckets) ==
  [capacity |-> capacity, leakRate |-> leakRate, buckets |-> buckets]

createRateLimiter(capacity, leakRate) ==
  IF Le(capacity, Zero)
  THEN [threw |-> CapacityError, limiter |-> RateLimiter(capacity, leakRate, EmptyMap)]
  ELSE IF Le(leakRate, Zero)
  THEN [threw |-> LeakRateError, limiter |-> RateLimiter(capacity, leakRate, EmptyMap)]
  ELSE [threw |-> NoError, limiter |-> RateLimiter(capacity, leakRate, EmptyMap)]

\* a variant that lets the level drain below zero
calculateLeakedLevelUnclamped(bucket, currentTime, leakRate) ==
  LET timeElapsed == MathMax(Zero, Sub(currentTime, bucket.lastUpdateTime))
      leakedAmount == Mul(timeElapsed, leakRate)
  IN  Sub(bucket.currentLevel, leakedAmount)

\* a variant that lets the elapsed time go negative
calculateLeakedLevelSigned(bucket, currentTime, leakRate) ==
  LET timeElapsed == Sub(currentTime, bucket.lastUpdateTime)
      leakedAmount == Mul(timeElapsed, leakRate)
  IN  MathMax(Zero, Sub(bucket.currentLevel, leakedAmount))

calculateLeakedLevel(bucket, currentTime, leakRate) ==
  LET timeElapsed == MathMax(Zero, Sub(currentTime, bucket.lastUpdateTime))
      leakedAmount == Mul(timeElapsed, leakRate)
  IN  MathMax(Zero, Sub(bucket.currentLevel, leakedAmount))

\* a variant that stamps the bucket with the call's time, not the later of the two
updateBucketRewinding(bucket, currentTime, leakRate) ==
  UserBucket(calculateLeakedLevel(bucket, currentTime, leakRate), currentTime)

updateBucket(bucket, currentTime, leakRate) ==
  LET newLevel == calculateLeakedLevel(bucket, currentTime, leakRate)
  IN  UserBucket(newLevel, MathMax(bucket.lastUpdateTime, currentTime))

\* a variant that tests the key without trimming it
InvalidUserIdUntrimmed(userId) == userId = <<>>

\* !userId || userId.trim() === ''
InvalidUserId(userId) == userId = <<>> \/ trim(userId) = <<>>

\* a variant that stamps a fresh bucket with time 0
currentBucketOfEpoch(lim, userId, timestamp) ==
  IF ~Has(lim.buckets, userId)
  THEN UserBucket(Zero, Zero)
  ELSE updateBucket(lim.buckets[userId], timestamp, lim.leakRate)

\* the bucket the decision is made on: a fresh one, or the stored one drained
currentBucketOf(lim, userId, timestamp) ==
  IF ~Has(lim.buckets, userId)
  THEN UserBucket(Zero, timestamp)
  ELSE updateBucket(lim.buckets[userId], timestamp, lim.leakRate)

\* a variant that rejects a request that fills the bucket exactly
OverflowsAtCapacity(newLevelAfterRequest, capacity) == Ge(newLevelAfterRequest, capacity)

\* newLevelAfterRequest > limiter.capacity
Overflows(newLevelAfterRequest, capacity) == Gt(newLevelAfterRequest, capacity)

\* a variant that stores the rejected unit
rejectedBucketCharged(currentBucket) ==
  UserBucket(Add(currentBucket.currentLevel, One), currentBucket.lastUpdateTime)

\* the bucket a rejected request stores
rejectedBucket(currentBucket) == currentBucket

\* the bucket an admitted request stores
updatedBucket(currentBucket, newLevelAfterRequest) ==
  UserBucket(newLevelAfterRequest, currentBucket.lastUpdateTime)

\* a variant that starts the new map empty instead of copying the old one
withBucketAlone(lim, userId, bucket) ==
  [lim EXCEPT !.buckets = MapSet(EmptyMap, userId, bucket)]

\* { ...limiter, buckets: new Map(limiter.buckets).set(userId, bucket) }
withBucket(lim, userId, bucket) ==
  [lim EXCEPT !.buckets = MapSet(lim.buckets, userId, bucket)]

allowRequest(lim, userId, timestamp) ==
  IF InvalidUserId(userId)
  THEN [threw |-> UserIdError, allowed |-> FALSE, limiter |-> lim]
  ELSE IF ~isFinite(timestamp)
  THEN [threw |-> TimestampError, allowed |-> FALSE, limiter |-> lim]
  ELSE
    LET currentBucket == currentBucketOf(lim, userId, timestamp)
        newLevelAfterRequest == Add(currentBucket.currentLevel, One)
    IN  IF Overflows(newLevelAfterRequest, lim.capacity)
        THEN [threw |-> NoError, allowed |-> FALSE,
              limiter |-> withBucket(lim, userId, rejectedBucket(currentBucket))]
        ELSE [threw |-> NoError, allowed |-> TRUE,
              limiter |-> withBucket(lim, userId,
                                     updatedBucket(currentBucket, newLevelAfterRequest))]

\* a variant that keeps a bucket only when it is both recent and not drained
RetainedBoth(bucket, cutoffTime, currentLevel) ==
  Ge(bucket.lastUpdateTime, cutoffTime) /\ Gt(currentLevel, Zero)

\* bucket.lastUpdateTime >= cutoffTime || currentLevel > 0
Retained(bucket, cutoffTime, currentLevel) ==
  Ge(bucket.lastUpdateTime, cutoffTime) \/ Gt(currentLevel, Zero)

\* a variant that stamps a kept bucket with currentTime even when that is earlier
cleanedBucketRewinding(bucket, currentTime, leakRate) ==
  UserBucket(calculateLeakedLevel(bucket, currentTime, leakRate), currentTime)

\* a variant that empties every bucket it keeps
cleanedBucketReset(bucket, currentTime, leakRate) ==
  UserBucket(Zero, MathMax(bucket.lastUpdateTime, currentTime))

\* a variant that keeps the stored lastUpdateTime of a bucket it drains
cleanedBucketUnstamped(bucket, currentTime, leakRate) ==
  UserBucket(calculateLeakedLevel(bucket, currentTime, leakRate), bucket.lastUpdateTime)

\* the bucket cleanup stores for a key it keeps
cleanedBucket(bucket, currentTime, leakRate) ==
  UserBucket(calculateLeakedLevel(bucket, currentTime, leakRate),
             MathMax(bucket.lastUpdateTime, currentTime))

\* a variant that returns { buckets: newBuckets } without the limiter's other fields
cleanupInactiveBucketsBare(lim, currentTime, maxIdleTime) ==
  LET cutoffTime == Sub(currentTime, maxIdleTime)
      kept == {userId \in DOMAIN lim.buckets :
                 Retained(lim.buckets[userId], cutoffTime,
                          calculateLeakedLevel(lim.buckets[userId], currentTime, lim.leakRate))}
      newBuckets == [userId \in kept |->
                       cleanedBucket(lim.buckets[userId], currentTime, lim.leakRate)]
  IN  RateLimiter(NaN, NaN, newBuckets)

cleanupInactiveBuckets(lim, currentTime, maxIdleTime) ==
  LET cutoffTime == Sub(currentTime, maxIdleTime)
      kept == {userId \in DOMAIN lim.buckets :
                 Retained(lim.buckets[userId], cutoffTime,
                          calculateLeakedLevel(lim.buckets[userId], currentTime, lim.leakRate))}
      newBuckets == [userId \in kept |->
                       cleanedBucket(lim.buckets[userId], currentTime, lim.leakRate)]
  IN  [lim EXCEPT !.buckets = newBuckets]

\* the value null
Null == [tag |-> "null"]

\* an omitted optional argument
Undefined == [tag |-> "undefined", val |-> 0]

BucketState(userId, currentLevel, capacity, lastUpdateTime, leakRate) ==
  [tag |-> "state", userId |-> userId, currentLevel |-> currentLevel, capacity |-> capacity,
   lastUpdateTime |-> lastUpdateTime, leakRate |-> leakRate]

\* a variant that reports the stored level whatever the time
getBucketStateStale(lim, userId, currentTime) ==
  IF InvalidUserId(userId) THEN Null
  ELSE IF ~Has(lim.buckets, userId) THEN Null
  ELSE BucketState(userId, lim.buckets[userId].currentLevel, lim.capacity,
                   lim.buckets[userId].lastUpdateTime, lim.leakRate)

\* a variant that counts the unit of the request being considered
getBucketStateCharged(lim, userId, currentTime) ==
  IF InvalidUserId(userId) THEN Null
  ELSE IF ~Has(lim.buckets, userId) THEN Null
  ELSE
    LET bucket == lim.buckets[userId]
        actualCurrentLevel ==
          IF currentTime # Undefined
          THEN calculateLeakedLevel(bucket, currentTime, lim.leakRate)
          ELSE bucket.currentLevel
    IN  BucketState(userId, Add(actualCurrentLevel, One), lim.capacity,
                    bucket.lastUpdateTime, lim.leakRate)

getBucketState(lim, userId, currentTime) ==
  IF InvalidUserId(userId) THEN Null
  ELSE IF ~Has(lim.buckets, userId) THEN Null
  ELSE
    LET bucket == lim.buckets[userId]
        actualCurrentLevel ==
          IF currentTime # Undefined
          THEN calculateLeakedLevel(bucket, currentTime, lim.leakRate)
          ELSE bucket.currentLevel
    IN  BucketState(userId, actualCurrentLevel, lim.capacity, bucket.lastUpdateTime,
                    lim.leakRate)

(***************************************************************************)
(* The limiter's objects.  A RateLimiter, its Map and every UserBucket are *)
(* objects with an address; the heap gives the contents of the addresses   *)
(* in use: lims[a] is a limiter object whose field buckets is the address  *)
(* of a Map, maps[a] takes the keys of a Map to the addresses of their     *)
(* buckets, objs[a] is a bucket.  cur is the limiter the caller holds and  *)
(* old the limiter it passed to the last call.                             *)
(***************************************************************************)
\* the smallest address not in use
Fresh(used) ==
  CHOOSE a \in 0 .. Cardinality(used) : a \notin used /\ \A b \in 0 .. a - 1 : b \in used

\* the heap after createRateLimiter returned lim
HeapOf(lim) ==
  [lims |-> (0 :> [capacity |-> lim.capacity, leakRate |-> lim.leakRate, buckets |-> 0]),
   maps |-> (0 :> EmptyMap),
   objs |-> EmptyMap,
   cur |-> 0,
   old |-> 0]

\* the value of the limiter object at address l
LimiterAt(h, l) ==
  LET buckets == h.maps[h.lims[l].buckets]
  IN  RateLimiter(h.lims[l].capacity, h.lims[l].leakRate,
                  [userId \in DOMAIN buckets |-> h.objs[buckets[userId]]])

\* an object literal { currentLevel, lastUpdateTime }
NewObject(h, bucket) ==
  LET a == Fresh(DOMAIN h.objs)
  IN  [heap |-> [h EXCEPT !.objs = (a :> bucket) @@ h.objs], addr |-> a]

\* new Map()
NewMap(h) ==
  LET a == Fresh(DOMAIN h.maps)
  IN  [heap |-> [h EXCEPT !.maps = (a :> EmptyMap) @@ h.maps], addr |-> a]

\* a variant that takes the Map itself instead of a copy
CopyMapAliased(h, m) == [heap |-> h, addr |-> m]

\* new Map(limiter.buckets)
CopyMap(h, m) ==
  LET a == Fresh(DOMAIN h.maps)
  IN  [heap |-> [h EXCEPT !.maps = (a :> h.maps[m]) @@ h.maps], addr |-> a]

\* a variant that sets the key in the Map of the limiter the caller holds
MapSetAtHeld(h, m, userId, a) ==
  [h EXCEPT !.maps[h.lims[h.cur].buckets] = MapSet(@, userId, a)]

\* newBuckets.set(userId, bucket)
MapSetAt(h, m, userId, a) == [h EXCEPT !.maps[m] = MapSet(h.maps[m], userId, a)]

\* an object literal { ...limiter, buckets: newBuckets }
NewLimiter(h, lim, newBuckets) ==
  LET a == Fresh(DOMAIN h.lims)
  IN  [heap |-> [h EXCEPT !.lims = (a :> [lim EXCEPT !.buckets = newBuckets]) @@ h.lims],
       addr |-> a]

\* the heap once the caller holds no reference but the limiter at l: the objects
\* the limiter reaches, moved to the lowest addresses in the order of their addresses
Collect(h, l) ==
  LET m == h.lims[l].buckets
      live == {h.maps[m][userId] : userId \in DOMAIN h.maps[m]}
      moved == [a \in live |-> Cardinality({b \in live : b < a})]
  IN  [lims |-> (0 :> [h.lims[l] EXCEPT !.buckets = 0]),
       maps |-> (0 :> [userId \in DOMAIN h.maps[m] |-> moved[h.maps[m][userId]]]),
       objs |-> [a \in {moved[b] : b \in live} |->
                   h.objs[CHOOSE b \in live : moved[b] = a]],
       cur |-> 0,
       old |-> 0]

allowRequestOnHeap(h, l, userId, timestamp) ==
  IF InvalidUserId(userId)
  THEN [threw |-> UserIdError, allowed |-> FALSE, heap |-> h, limiter |-> l]
  ELSE IF ~isFinite(timestamp)
  THEN [threw |-> TimestampError, allowed |-> FALSE, heap |-> h, limiter |-> l]
  ELSE
    LET lim == h.lims[l]
        currentBucket == NewObject(h, currentBucketOf(LimiterAt(h, l), userId, timestamp))
        newLevelAfterRequest ==
          Add(currentBucket.heap.objs[currentBucket.addr].currentLevel, One)
    IN  IF Overflows(newLevelAfterRequest, lim.capacity)
        THEN
          LET newBuckets == CopyMap(currentBucket.heap, lim.buckets)
              set == MapSetAt(newBuckets.heap, newBuckets.addr, userId, currentBucket.addr)
              newLimiter == NewLimiter(set, lim, newBuckets.addr)
          IN  [threw |-> NoError, allowed |-> FALSE,
               heap |-> newLimiter.heap, limiter |-> newLimiter.addr]
        ELSE
          LET updated ==
                NewObject(currentBucket.heap,
                          updatedBucket(currentBucket.heap.objs[currentBucket.addr],
                                        newLevelAfterRequest))
              newBuckets == CopyMap(updated.heap, lim.buckets)
              set == MapSetAt(newBuckets.heap, newBuckets.addr, userId, updated.addr)
              newLimiter == NewLimiter(set, lim, newBuckets.addr)
          IN  [threw |-> NoError, allowed |-> TRUE,
               heap |-> newLimiter.heap, limiter |-> newLimiter.addr]

\* the loop of cleanupInactiveBuckets over the entries todo of the Map buckets; the
\* order of the visits decides the addresses of the new buckets and nothing else
RECURSIVE cleanupEntries(_, _, _, _, _, _, _)
cleanupEntries(h, todo, buckets, newBuckets, leakRate, currentTime, cutoffTime) ==
  IF todo = {} THEN h
  ELSE
    LET userId == CHOOSE k \in todo : TRUE
        bucket == h.objs[buckets[userId]]
        currentLevel == calculateLeakedLevel(bucket, currentTime, leakRate)
        kept == NewObject(h, cleanedBucket(bucket, currentTime, leakRate))
    IN  IF Retained(bucket, cutoffTime, currentLevel)
        THEN cleanupEntries(MapSetAt(kept.heap, newBuckets, userId, kept.addr),
                            todo \ {userId}, buckets, newBuckets, leakRate, currentTime,
                            cutoffTime)
        ELSE cleanupEntries(h, todo \ {userId}, buckets, newBuckets, leakRate, currentTime,
                            cutoffTime)

cleanupInactiveBucketsOnHeap(h, l, currentTime, maxIdleTime) ==
  LET lim == h.lims[l]
      newBuckets == NewMap(h)
      cutoffTime == Sub(currentTime, maxIdleTime)
      swept == cleanupEntries(newBuckets.heap, DOMAIN h.maps[lim.buckets], h.maps[lim.buckets],
                              newBuckets.addr, lim.leakRate, currentTime, cutoffTime)
      newLimiter == NewLimiter(swept, lim, newBuckets.addr)
  IN  [heap |-> newLimiter.heap, limiter |-> newLimiter.addr]

\* a variant that writes the level it computed back into the stored bucket
getBucketStateOnHeapCaching(h, l, userId, currentTime) ==
  LET state == getBucketState(LimiterAt(h, l), userId, currentTime)
      buckets == h.maps[h.lims[l].buckets]
  IN  [state |-> state,
       heap |-> IF state.tag = "state"
                THEN [h EXCEPT !.objs[buckets[userId]].currentLevel = state.currentLevel]
                ELSE h]

\* getBucketState reads the limiter and stores nothing
getBucketStateOnHeap(h, l, userId, currentTime) ==
  [state |-> getBucketState(LimiterAt(h, l), userId, currentTime), heap |-> h]

(***************************************************************************)
(* Inputs.                                                                 *)
(***************************************************************************)
\* capacities 0.5, 2 and 2.5; leak rates 0.5 and 1 per time unit
Capacities == {Fin(1), Whole(2), Fin(2 * Scale + 1)}
LeakRates == {Fin(1), Whole(1)}

NonFinite == {NaN, PosInf, NegInf}
FiniteTimes == {Whole(i) : i \in -1 .. MaxTime}
Timestamps == FiniteTimes \cup NonFinite
\* the default idle window of cleanupInactiveBuckets, in time units
DefaultMaxIdleTime == 3600
\* the idle windows 0 .. MaxIdle
IdleWindows == {Whole(i) : i \in 0 .. MaxIdle}
MaxIdleTimes == {Whole(-1), Whole(DefaultMaxIdleTime)} \cup IdleWindows \cup NonFinite

\* "", "  ", "a", " b"
ValidUserIds == {<<"a">>, <<" ", "b">>}
UserIds == {<<>>, <<" ", " ">>} \cup ValidUserIds

NoCall ==
  [op |-> "none", userId |-> <<>>, time |-> Zero, maxIdleTime |-> Zero,
   capacity |-> Zero, leakRate |-> Zero]
NoRet == [threw |-> NoError, allowed |-> FALSE, state |-> Null]
\* the whole time units of FiniteTimes
TimeUnits == -1 .. MaxTime
\* no burst under way
NoBurst == [userId |-> <<>>, time |-> Zero, n |-> 0, admitted |-> 0, live |-> FALSE]
\* the last call was not a request for a key whose previous request was rejected
NoRecovery == [known |-> FALSE, bucket |-> UserBucket(Zero, Zero)]
\* no request left out of the reference run
NoSkip == [done |-> FALSE, userId |-> <<>>, time |-> Zero, twin |-> FALSE]
\* no call made yet
NoHistory ==
  [burst |-> NoBurst,
   rejected |-> EmptyMap,
   recovering |-> NoRecovery,
   admits |-> [userId \in ValidUserIds |-> [t \in TimeUnits |-> 0]],
   now |-> Whole(-1),
   swept |-> FALSE,
   seen |-> EmptyMap,
   skipped |-> NoSkip]
NoSweep == [n |-> 0, time |-> Zero, maxIdleTime |-> Zero, regular |-> TRUE]
\* no call under way
NoWriter ==
  [pc |-> "idle", op |-> "none", userId |-> <<>>, time |-> Zero, maxIdleTime |-> Zero,
   limiter |-> 0, allowed |-> FALSE, bucket |-> 0, newBuckets |-> 0, todo |-> {},
   returned |-> 0]
\* no observation under way
NoReader ==
  [pc |-> "idle", limiter |-> 0, userId |-> <<>>, bucket |-> 0, currentLevel |-> Zero,
   lastUpdateTime |-> Zero]
\* the shared reference after createRateLimiter returned lim: produced is the set of
\* <<key, bucket>> that completed calls built, published[l] the value a completed call
\* returned at address l
SharedOf(lim) ==
  [writer |-> NoWriter, reader |-> NoReader, produced |-> {}, published |-> (0 :> lim),
   writes |-> 0]

(***************************************************************************)
(* The state machine: a caller holding one limiter value.                  *)
(***************************************************************************)
Init ==
  /\ \E capacity \in Capacities, leakRate \in LeakRates :
       /\ createRateLimiter(capacity, leakRate).threw = NoError
       /\ limiter = createRateLimiter(capacity, leakRate).limiter
  /\ input = limiter
  /\ shadow = [limiter |-> limiter, allowed |-> FALSE, sweep |-> NoSweep]
  /\ call = NoCall
  /\ ret = NoRet
  /\ heap = HeapOf(limiter)
  /\ history = NoHistory
  /\ shared = SharedOf(limiter)

\* const [allowed, newLimiter] = allowRequest(limiter, userId, timestamp); limiter = newLimiter
AllowRequestCall(userId, timestamp) ==
  LET r == allowRequest(limiter, userId, timestamp)
  IN  /\ input' = limiter
      /\ limiter' = r.limiter
      /\ call' = [NoCall EXCEPT !.op = "allowRequest", !.userId = userId, !.time = timestamp]
      /\ ret' = [NoRet EXCEPT !.threw = r.threw, !.allowed = r.allowed]

\* limiter = cleanupInactiveBuckets(limiter, currentTime, maxIdleTime)
CleanupCall(currentTime, maxIdleTime) ==
  /\ input' = limiter
  /\ limiter' = cleanupInactiveBuckets(limiter, currentTime, maxIdleTime)
  /\ call' = [NoCall EXCEPT !.op = "cleanupInactiveBuckets", !.time = currentTime,
                             !.maxIdleTime = maxIdleTime]
  /\ ret' = NoRet

AllowRequest ==
  \E userId \in UserIds, timestamp \in Timestamps :
    AllowRequestCall(userId, timestamp) /\ UNCHANGED <<shadow, heap, history, shared>>

Cleanup ==
  \E currentTime \in Timestamps, maxIdleTime \in MaxIdleTimes :
    CleanupCall(currentTime, maxIdleTime) /\ UNCHANGED <<shadow, heap, history, shared>>

Next == AllowRequest \/ Cleanup

Spec == Init /\ [][Next]_vars

(***************************************************************************)
(* The same caller beside a reference run: shadow.limiter receives every   *)
(* allowRequest call the caller makes and no cleanup call, and             *)
(* shadow.allowed is the reference run's verdict on the last request.      *)
(***************************************************************************)
AllowRequestBoth ==
  \E userId \in ValidUserIds, timestamp \in FiniteTimes :
    LET r == allowRequest(shadow.limiter, userId, timestamp)
    IN  /\ AllowRequestCall(userId, timestamp)
        /\ shadow' = [shadow EXCEPT !.limiter = r.limiter, !.allowed = r.allowed]
        /\ UNCHANGED <<heap, history, shared>>

CleanupOnly ==
  \E currentTime \in FiniteTimes, maxIdleTime \in IdleWindows :
    CleanupCall(currentTime, maxIdleTime) /\ UNCHANGED <<shadow, heap, history, shared>>

NextShadow == AllowRequestBoth \/ CleanupOnly

SpecShadow == Init /\ [][NextShadow]_vars

(***************************************************************************)
(* The same caller with a record of its cleanup passes.  shadow.limiter is *)
(* the limiter as the last processed request left it; shadow.sweep         *)
(* describes the cleanup calls made since: their number (counted to 2),    *)
(* the last one's arguments, and whether they were regular, i.e. made with *)
(* finite, strictly advancing currentTime and one fixed finite             *)
(* maxIdleTime >= 0.                                                       *)
(***************************************************************************)
SweepAfter(sweep, currentTime, maxIdleTime) ==
  [n |-> IF sweep.n < 2 THEN sweep.n + 1 ELSE sweep.n,
   time |-> currentTime,
   maxIdleTime |-> maxIdleTime,
   regular |-> /\ sweep.regular
               /\ isFinite(currentTime)
               /\ isFinite(maxIdleTime)
               /\ Ge(maxIdleTime, Zero)
               /\ sweep.n > 0 => (Gt(currentTime, sweep.time) /\ maxIdleTime = sweep.maxIdleTime)]

AllowRequestSwept ==
  \E userId \in ValidUserIds, timestamp \in FiniteTimes :
    LET r == allowRequest(limiter, userId, timestamp)
    IN  /\ AllowRequestCall(userId, timestamp)
        /\ shadow' = IF r.threw = NoError
                      THEN [limiter |-> r.limiter, allowed |-> r.allowed, sweep |-> NoSweep]
                      ELSE shadow
        /\ UNCHANGED <<heap, history, shared>>

CleanupSwept ==
  \E currentTime \in FiniteTimes, maxIdleTime \in IdleWindows :
    /\ CleanupCall(currentTime, maxIdleTime)
    /\ shadow' = [shadow EXCEPT !.sweep = SweepAfter(shadow.sweep, currentTime, maxIdleTime)]
    /\ UNCHANGED <<heap, history, shared>>

NextSweep == AllowRequestSwept \/ CleanupSwept

SpecSweep == Init /\ [][NextSweep]_vars

(***************************************************************************)
(* The same caller with its objects on the heap.  Before each call the     *)
(* caller holds its limiter and nothing else; after the call heap.old is   *)
(* the limiter it passed and heap.cur the limiter it holds now.            *)
(***************************************************************************)
ObservationTimes == Timestamps \cup {Undefined}

AllowRequestOnHeap ==
  \E userId \in ValidUserIds, timestamp \in FiniteTimes :
    LET h == Collect(heap, heap.cur)
        r == allowRequestOnHeap(h, h.cur, userId, timestamp)
    IN  /\ heap' = [r.heap EXCEPT !.cur = r.limiter]
        /\ limiter' = LimiterAt(r.heap, r.limiter)
        /\ input' = limiter
        /\ call' = [NoCall EXCEPT !.op = "allowRequest", !.userId = userId,
                                  !.time = timestamp]
        /\ ret' = [NoRet EXCEPT !.threw = r.threw, !.allowed = r.allowed]
        /\ UNCHANGED <<shadow, history, shared>>

CleanupOnHeap ==
  \E currentTime \in FiniteTimes, maxIdleTime \in IdleWindows :
    LET h == Collect(heap, heap.cur)
        r == cleanupInactiveBucketsOnHeap(h, h.cur, currentTime, maxIdleTime)
    IN  /\ heap' = [r.heap EXCEPT !.cur = r.limiter]
        /\ limiter' = LimiterAt(r.heap, r.limiter)
        /\ input' = limiter
        /\ call' = [NoCall EXCEPT !.op = "cleanupInactiveBuckets", !.time = currentTime,
                                  !.maxIdleTime = maxIdleTime]
        /\ ret' = NoRet
        /\ UNCHANGED <<shadow, history, shared>>

\* const state = getBucketState(limiter, userId, currentTime)
GetBucketStateOnHeap ==
  \E userId \in UserIds, currentTime \in ObservationTimes :
    LET h == Collect(heap, heap.cur)
        r == getBucketStateOnHeap(h, h.cur, userId, currentTime)
    IN  /\ heap' = r.heap
        /\ limiter' = LimiterAt(r.heap, r.heap.cur)
        /\ input' = limiter
        /\ call' = [NoCall EXCEPT !.op = "getBucketState", !.userId = userId,
                                  !.time = currentTime]
        /\ ret' = [NoRet EXCEPT !.state = r.state]
        /\ UNCHANGED <<shadow, history, shared>>

NextHeap == AllowRequestOnHeap \/ CleanupOnHeap \/ GetBucketStateOnHeap

\* the limiters of capacity 2
InitHeap == Init /\ limiter.capacity = Whole(2)

SpecHeap == InitHeap /\ [][NextHeap]_vars

(***************************************************************************)
(* A caller that constructs its limiter: the arguments of                  *)
(* createRateLimiter are drawn from ConfigValues, the call is made, and    *)
(* when it returned a limiter the caller sends it requests.                *)
(***************************************************************************)
\* NaN, +Infinity, -Infinity, -1, 0, 0.5, 1, 2
ConfigValues == NonFinite \cup {Whole(-1), Zero, Fin(1), Whole(1), Whole(2)}

\* the caller holds no limiter
NoLimiter == RateLimiter(Zero, Zero, EmptyMap)

InitCreate ==
  /\ limiter = NoLimiter
  /\ input = NoLimiter
  /\ shadow = [limiter |-> NoLimiter, allowed |-> FALSE, sweep |-> NoSweep]
  /\ heap = HeapOf(NoLimiter)
  /\ history = NoHistory
  /\ shared = SharedOf(NoLimiter)
  /\ \E capacity \in ConfigValues, leakRate \in ConfigValues :
       call = [NoCall EXCEPT !.capacity = capacity, !.leakRate = leakRate]
  /\ ret = NoRet

\* limiter = createRateLimiter(capacity, leakRate)
Create ==
  /\ call.op = "none"
  /\ LET r == createRateLimiter(call.capacity, call.leakRate)
     IN  /\ call' = [call EXCEPT !.op = "createRateLimiter"]
         /\ ret' = [NoRet EXCEPT !.threw = r.threw]
         /\ limiter' = IF r.threw = NoError THEN r.limiter ELSE limiter
  /\ UNCHANGED <<input, shadow, heap, history, shared>>

RequestCreated ==
  /\ call.op # "none"
  /\ limiter # NoLimiter
  /\ \A k \in DOMAIN limiter.buckets :
       isFinite(limiter.buckets[k].currentLevel) =>
         limiter.buckets[k].currentLevel.val < MaxLevel * Scale
  /\ \E timestamp \in FiniteTimes : AllowRequestCall(<<"a">>, timestamp)
  /\ UNCHANGED <<shadow, heap, history, shared>>

NextCreate == Create \/ RequestCreated

SpecCreate == InitCreate /\ [][NextCreate]_vars

(***************************************************************************)
(* The same caller with a record of its bursts and rejections.             *)
(* history.burst describes the requests made for one key at one timestamp  *)
(* since the key had no bucket, with no other request for that key and no  *)
(* cleanup call in between: their number n, how many were admitted, and    *)
(* whether the last call was the n-th of them (live).  history.rejected    *)
(* holds, for every key whose latest request was rejected, the bucket that *)
(* request stored, and history.recovering the entry the last request found *)
(* for its key.                                                            *)
(***************************************************************************)
ContinuesBurst(burst, lim, userId, timestamp) ==
  /\ Has(lim.buckets, userId)
  /\ burst.n > 0
  /\ burst.userId = userId
  /\ burst.time = timestamp

BurstAfter(burst, lim, userId, timestamp, allowed) ==
  IF ~Has(lim.buckets, userId)
  THEN [userId |-> userId, time |-> timestamp, n |-> 1,
        admitted |-> IF allowed THEN 1 ELSE 0, live |-> TRUE]
  ELSE IF ContinuesBurst(burst, lim, userId, timestamp)
  THEN [burst EXCEPT !.n = @ + 1, !.admitted = IF allowed THEN @ + 1 ELSE @, !.live = TRUE]
  ELSE IF burst.userId = userId THEN NoBurst
  ELSE [burst EXCEPT !.live = FALSE]

RejectedAfter(rejected, userId, allowed, bucket) ==
  IF allowed
  THEN [k \in DOMAIN rejected \ {userId} |-> rejected[k]]
  ELSE MapSet(rejected, userId, bucket)

RecoveryOf(rejected, userId) ==
  IF Has(rejected, userId)
  THEN [known |-> TRUE, bucket |-> rejected[userId]]
  ELSE NoRecovery

AllowRequestBurst ==
  \E userId \in ValidUserIds, timestamp \in FiniteTimes :
    LET r == allowRequest(limiter, userId, timestamp)
    IN  /\ ContinuesBurst(history.burst, limiter, userId, timestamp) =>
             history.burst.n < MaxBurst
        /\ AllowRequestCall(userId, timestamp)
        /\ history' =
             [history EXCEPT
                !.burst = BurstAfter(@, limiter, userId, timestamp, r.allowed),
                !.rejected = RejectedAfter(@, userId, r.allowed, r.limiter.buckets[userId]),
                !.recovering = RecoveryOf(history.rejected, userId)]
        /\ UNCHANGED <<shadow, heap, shared>>

CleanupBurst ==
  \E currentTime \in FiniteTimes, maxIdleTime \in IdleWindows :
    /\ CleanupCall(currentTime, maxIdleTime)
    /\ history' = [history EXCEPT !.burst = NoBurst, !.recovering = NoRecovery]
    /\ UNCHANGED <<shadow, heap, shared>>

NextBurst == AllowRequestBurst \/ CleanupBurst

SpecBurst == Init /\ [][NextBurst]_vars

(***************************************************************************)
(* The same caller on one timeline: every call is made at a time not       *)
(* earlier than the call before it.  history.now is the time of the last   *)
(* call, history.admits[userId][t] the number of requests admitted for     *)
(* userId at time t, and history.swept says that a cleanup call was made.  *)
(***************************************************************************)
AllowRequestRate ==
  \E userId \in ValidUserIds, timestamp \in FiniteTimes :
    LET r == allowRequest(limiter, userId, timestamp)
    IN  /\ Ge(timestamp, history.now)
        /\ AllowRequestCall(userId, timestamp)
        /\ history' =
             [history EXCEPT
                !.now = timestamp,
                !.admits[userId][timestamp.val \div Scale] = IF r.allowed THEN @ + 1 ELSE @]
        /\ UNCHANGED <<shadow, heap, shared>>

CleanupRate ==
  \E currentTime \in FiniteTimes, maxIdleTime \in IdleWindows :
    /\ Ge(currentTime, history.now)
    /\ CleanupCall(currentTime, maxIdleTime)
    /\ history' = [history EXCEPT !.now = currentTime, !.swept = TRUE]
    /\ UNCHANGED <<shadow, heap, shared>>

NextRate == AllowRequestRate \/ CleanupRate

SpecRate == Init /\ [][NextRate]_vars

(***************************************************************************)
(* The same caller with a record of the clocks it has seen:                *)
(* history.seen[userId] is the latest lastUpdateTime the key's bucket has  *)
(* had in any state of the run so far, the present one included.           *)
(***************************************************************************)
SeenAfter(seen, lim) ==
  [userId \in DOMAIN seen \cup DOMAIN lim.buckets |->
     IF ~Has(lim.buckets, userId) THEN seen[userId]
     ELSE IF ~Has(seen, userId) THEN lim.buckets[userId].lastUpdateTime
     ELSE MathMax(seen[userId], lim.buckets[userId].lastUpdateTime)]

AllowRequestClocked ==
  \E userId \in ValidUserIds, timestamp \in FiniteTimes :
    /\ AllowRequestCall(userId, timestamp)
    /\ history' = [history EXCEPT !.seen = SeenAfter(@, limiter')]
    /\ UNCHANGED <<shadow, heap, shared>>

CleanupClocked ==
  \E currentTime \in FiniteTimes, maxIdleTime \in IdleWindows :
    /\ CleanupCall(currentTime, maxIdleTime)
    /\ history' = [history EXCEPT !.seen = SeenAfter(@, limiter')]
    /\ UNCHANGED <<shadow, heap, shared>>

NextClock == AllowRequestClocked \/ CleanupClocked

SpecClock == Init /\ [][NextClock]_vars

(***************************************************************************)
(* The same caller beside a reference run that leaves out one rejected     *)
(* request.  shadow.limiter receives every allowRequest call the caller    *)
(* makes except the one recorded in history.skipped, a request the caller  *)
(* saw rejected; after it, the requests for its key come at timestamps not *)
(* earlier than its own.  history.skipped.twin says that the last call     *)
(* went to both runs.  The timestamps are the representable times from 0   *)
(* to MaxTime, so that an elapsed time multiplied by the leak rate can     *)
(* fall between two representable numbers and is rounded, as the product   *)
(* of two doubles is.                                                      *)
(***************************************************************************)
FineTimes == {Fin(i) : i \in 0 .. MaxTime * Scale}

AllowRequestTwin ==
  \E userId \in ValidUserIds, timestamp \in FineTimes :
    LET r == allowRequest(shadow.limiter, userId, timestamp)
    IN  /\ (history.skipped.done /\ userId = history.skipped.userId) =>
             Ge(timestamp, history.skipped.time)
        /\ AllowRequestCall(userId, timestamp)
        /\ shadow' = [shadow EXCEPT !.limiter = r.limiter, !.allowed = r.allowed]
        /\ history' = [history EXCEPT !.skipped.twin = TRUE]
        /\ UNCHANGED <<heap, shared>>

AllowRequestSkipped ==
  \E userId \in ValidUserIds, timestamp \in FineTimes :
    /\ ~history.skipped.done
    /\ ~allowRequest(limiter, userId, timestamp).allowed
    /\ AllowRequestCall(userId, timestamp)
    /\ history' = [history EXCEPT !.skipped = [done |-> TRUE, userId |-> userId,
                                               time |-> timestamp, twin |-> FALSE]]
    /\ UNCHANGED <<shadow, heap, shared>>

NextSkip == AllowRequestTwin \/ AllowRequestSkipped

SpecSkip == Init /\ [][NextSkip]_vars

(***************************************************************************)
(* A limiter shared by reference.  heap.cur is the shared reference.  The  *)
(* writers are serialized: one call runs at a time, statement by statement,*)
(* on the limiter it read from the reference, and the limiter it returns   *)
(* replaces the reference in one step.  A reader runs beside them: it      *)
(* reads the reference, looks its key up in the limiter's Map and reads    *)
(* the bucket's two fields, each in a step of its own.                     *)
(***************************************************************************)
SharedTimes == {Zero, One}

\* allowRequest up to the bucket it is going to store
WriterRequests ==
  \E userId \in ValidUserIds, timestamp \in SharedTimes :
    LET lim == heap.lims[heap.cur]
        currentBucket ==
          NewObject(heap, currentBucketOf(LimiterAt(heap, heap.cur), userId, timestamp))
        newLevelAfterRequest ==
          Add(currentBucket.heap.objs[currentBucket.addr].currentLevel, One)
        allowed == ~Overflows(newLevelAfterRequest, lim.capacity)
        updated ==
          NewObject(currentBucket.heap,
                    updatedBucket(currentBucket.heap.objs[currentBucket.addr],
                                  newLevelAfterRequest))
    IN  /\ shared.writer.pc = "idle"
        /\ shared.writes < MaxWrites
        /\ heap' = IF allowed THEN updated.heap ELSE currentBucket.heap
        /\ shared' = [shared EXCEPT !.writer =
                        [NoWriter EXCEPT !.pc = "copy", !.op = "allowRequest",
                                         !.userId = userId, !.time = timestamp,
                                         !.limiter = heap.cur, !.allowed = allowed,
                                         !.bucket = IF allowed THEN updated.addr
                                                    ELSE currentBucket.addr]]
        /\ UNCHANGED <<limiter, input, call, ret, shadow, history>>

\* const newBuckets = new Map(limiter.buckets)
WriterCopies ==
  LET newBuckets == CopyMap(heap, heap.lims[shared.writer.limiter].buckets)
  IN  /\ shared.writer.pc = "copy"
      /\ heap' = newBuckets.heap
      /\ shared' = [shared EXCEPT !.writer.pc = "set",
                                  !.writer.newBuckets = newBuckets.addr]
      /\ UNCHANGED <<limiter, input, call, ret, shadow, history>>

\* newBuckets.set(userId, bucket)
WriterSets ==
  /\ shared.writer.pc = "set"
  /\ heap' = MapSetAt(heap, shared.writer.newBuckets, shared.writer.userId,
                      shared.writer.bucket)
  /\ shared' = [shared EXCEPT !.writer.pc = "return"]
  /\ UNCHANGED <<limiter, input, call, ret, shadow, history>>

\* cleanupInactiveBuckets up to its loop
WriterCleans ==
  \E currentTime \in SharedTimes :
    LET newBuckets == NewMap(heap)
        todo == DOMAIN heap.maps[heap.lims[heap.cur].buckets]
    IN  /\ shared.writer.pc = "idle"
        /\ shared.writes < MaxWrites
        /\ heap' = newBuckets.heap
        /\ shared' = [shared EXCEPT !.writer =
                        [NoWriter EXCEPT !.pc = IF todo = {} THEN "return" ELSE "forEach",
                                         !.op = "cleanupInactiveBuckets",
                                         !.time = currentTime, !.limiter = heap.cur,
                                         !.newBuckets = newBuckets.addr, !.todo = todo]]
        /\ UNCHANGED <<limiter, input, call, ret, shadow, history>>

\* one entry of limiter.buckets.forEach
WriterVisits ==
  \E userId \in shared.writer.todo :
    LET w == shared.writer
        lim == heap.lims[w.limiter]
        cutoffTime == Sub(w.time, w.maxIdleTime)
        bucket == heap.objs[heap.maps[lim.buckets][userId]]
        currentLevel == calculateLeakedLevel(bucket, w.time, lim.leakRate)
        kept == NewObject(heap, cleanedBucket(bucket, w.time, lim.leakRate))
    IN  /\ w.pc = "forEach"
        /\ heap' = IF Retained(bucket, cutoffTime, currentLevel)
                   THEN MapSetAt(kept.heap, w.newBuckets, userId, kept.addr)
                   ELSE heap
        /\ shared' = [shared EXCEPT !.writer.todo = @ \ {userId},
                                    !.writer.pc = IF w.todo = {userId} THEN "return"
                                                  ELSE "forEach"]
        /\ UNCHANGED <<limiter, input, call, ret, shadow, history>>

\* return { ...limiter, buckets: newBuckets }
WriterReturns ==
  LET w == shared.writer
      newLimiter == NewLimiter(heap, heap.lims[w.limiter], w.newBuckets)
  IN  /\ w.pc = "return"
      /\ heap' = newLimiter.heap
      /\ shared' = [shared EXCEPT !.writer.pc = "publish",
                                  !.writer.returned = newLimiter.addr]
      /\ UNCHANGED <<limiter, input, call, ret, shadow, history>>

\* the limiter the completed call returns, by the call's definition
ReturnedBy(w, lim) ==
  IF w.op = "allowRequest" THEN allowRequest(lim, w.userId, w.time).limiter
  ELSE cleanupInactiveBuckets(lim, w.time, w.maxIdleTime)

\* the buckets the completed call built
ProducedBy(w, lim) ==
  IF w.op = "allowRequest"
  THEN {<<w.userId, ReturnedBy(w, lim).buckets[w.userId]>>}
  ELSE {<<userId, ReturnedBy(w, lim).buckets[userId]>> :
          userId \in DOMAIN ReturnedBy(w, lim).buckets}

\* the writer replaces the shared reference by the limiter its call returned
WriterPublishes ==
  LET w == shared.writer
  IN  /\ w.pc = "publish"
      /\ heap' = [heap EXCEPT !.old = heap.cur, !.cur = w.returned]
      /\ limiter' = LimiterAt(heap, w.returned)
      /\ input' = limiter
      /\ call' = [NoCall EXCEPT !.op = w.op, !.userId = w.userId, !.time = w.time,
                                !.maxIdleTime = w.maxIdleTime]
      /\ ret' = [NoRet EXCEPT !.allowed = w.allowed]
      /\ shared' = [shared EXCEPT
                      !.writer = NoWriter,
                      !.produced = @ \cup ProducedBy(w, limiter),
                      !.published = (w.returned :> ReturnedBy(w, limiter)) @@ @,
                      !.writes = @ + 1]
      /\ UNCHANGED <<shadow, history>>

\* the reader takes the limiter the shared reference holds
ReaderReadsReference ==
  \E userId \in ValidUserIds :
    /\ shared.reader.pc \in {"idle", "done"}
    /\ shared' = [shared EXCEPT !.reader =
                    [NoReader EXCEPT !.pc = "get", !.limiter = heap.cur,
                                     !.userId = userId]]
    /\ UNCHANGED <<limiter, input, call, ret, shadow, heap, history>>

\* const bucket = limiter.buckets.get(userId)
ReaderGets ==
  LET r == shared.reader
      buckets == heap.maps[heap.lims[r.limiter].buckets]
  IN  /\ r.pc = "get"
      /\ shared' = [shared EXCEPT !.reader =
                      IF Has(buckets, r.userId)
                      THEN [r EXCEPT !.pc = "currentLevel", !.bucket = buckets[r.userId]]
                      ELSE [r EXCEPT !.pc = "idle"]]
      /\ UNCHANGED <<limiter, input, call, ret, shadow, heap, history>>

\* bucket.currentLevel
ReaderReadsLevel ==
  /\ shared.reader.pc = "currentLevel"
  /\ shared' = [shared EXCEPT !.reader.pc = "lastUpdateTime",
                              !.reader.currentLevel =
                                heap.objs[shared.reader.bucket].currentLevel]
  /\ UNCHANGED <<limiter, input, call, ret, shadow, heap, history>>

\* bucket.lastUpdateTime
ReaderReadsTime ==
  /\ shared.reader.pc = "lastUpdateTime"
  /\ shared' = [shared EXCEPT !.reader.pc = "done",
                              !.reader.lastUpdateTime =
                                heap.objs[shared.reader.bucket].lastUpdateTime]
  /\ UNCHANGED <<limiter, input, call, ret, shadow, heap, history>>

NextShared ==
  \/ WriterRequests
  \/ WriterCopies
  \/ WriterSets
  \/ WriterCleans
  \/ WriterVisits
  \/ WriterReturns
  \/ WriterPublishes
  \/ ReaderReadsReference
  \/ ReaderGets
  \/ ReaderReadsLevel
  \/ ReaderReadsTime

SpecShared == InitHeap /\ [][NextShared]_vars

(***************************************************************************)
(* Vocabulary of the properties.  The arithmetic below is written on the   *)
(* fixed-point values directly, apart from the operators the model uses.   *)
(***************************************************************************)
Maxi(a, b) == IF a >= b THEN a ELSE b

LevelVal(bucket) == bucket.currentLevel.val
ClockVal(bucket) == bucket.lastUpdateTime.val

\* max(0, level - max(0, t - lastUpdate) * rate), for finite t
DrainedVal(bucket, t, rate) ==
  Maxi(0, LevelVal(bucket) - (Maxi(0, t - ClockVal(bucket)) * rate) \div Scale)

\* the last call was an allowRequest that returned
Requested == call.op = "allowRequest" /\ ret.threw = NoError
Admitted == Requested /\ ret.allowed
Rejected == Requested /\ ~ret.allowed
\* the last call was a cleanupInactiveBuckets
Cleaned == call.op = "cleanupInactiveBuckets"

\* the requested key's level after drainage to the request's time, 0 for a new key
ReconciledVal ==
  IF Has(input.buckets, call.userId)
  THEN DrainedVal(input.buckets[call.userId], call.time.val, input.leakRate.val)
  ELSE 0

\* max(storedLastUpdate, timestamp), the timestamp for a new key
ReconciledClock ==
  IF Has(input.buckets, call.userId)
  THEN Maxi(ClockVal(input.buckets[call.userId]), call.time.val)
  ELSE call.time.val

\* the requested key has the same bucket, or the same absence, before and after
SameBucket ==
  /\ Has(input.buckets, call.userId) <=> Has(limiter.buckets, call.userId)
  /\ Has(input.buckets, call.userId) =>
       limiter.buckets[call.userId] = input.buckets[call.userId]

(***************************************************************************)
(* C1: allowRequest with a valid key and a finite timestamp admits exactly *)
(* when the reconciled level plus one is at most the capacity, and an      *)
(* admitted request stores {reconciled level + 1, max(lastUpdate, t)}.     *)
(***************************************************************************)
C1_AdmissionDecision ==
  Requested =>
    /\ ret.allowed <=> (ReconciledVal + Scale <= input.capacity.val)
    /\ ret.allowed =>
         /\ Has(limiter.buckets, call.userId)
         /\ limiter.buckets[call.userId] =
              UserBucket(Fin(ReconciledVal + Scale), Fin(ReconciledClock))

\* a request admitted after drainage, filling the bucket exactly to capacity
C1_Witness ==
  /\ Admitted
  /\ Has(input.buckets, call.userId)
  /\ ReconciledVal < LevelVal(input.buckets[call.userId])
  /\ ReconciledVal + Scale = input.capacity.val

C4_LevelBounds ==
  /\ \A k \in DOMAIN limiter.buckets :
       /\ isFinite(limiter.buckets[k].currentLevel)
       /\ 0 <= LevelVal(limiter.buckets[k])
       /\ LevelVal(limiter.buckets[k]) <= limiter.capacity.val
  /\ Admitted => LevelVal(limiter.buckets[call.userId]) <= limiter.capacity.val
  /\ Rejected =>
       /\ 0 <= LevelVal(limiter.buckets[call.userId])
       /\ LevelVal(limiter.buckets[call.userId]) < limiter.capacity.val + Scale

\* a request rejected on a bucket that is full to capacity, beside a drained bucket
C4_Witness ==
  /\ Rejected
  /\ LevelVal(limiter.buckets[call.userId]) = limiter.capacity.val
  /\ \E k \in DOMAIN limiter.buckets : LevelVal(limiter.buckets[k]) = 0

(***************************************************************************)
(* C5: an allowRequest on a key that has a bucket never moves the stored   *)
(* lastUpdate backwards, whatever the order of the timestamps.             *)
(***************************************************************************)
C5_MonotonicClock ==
  (Requested /\ Has(input.buckets, call.userId)) =>
    ClockVal(limiter.buckets[call.userId]) >= ClockVal(input.buckets[call.userId])

\* a request whose timestamp is earlier than the stored lastUpdate
C5_Witness ==
  /\ Requested
  /\ Has(input.buckets, call.userId)
  /\ call.time.val < ClockVal(input.buckets[call.userId])
  /\ ClockVal(limiter.buckets[call.userId]) = ClockVal(input.buckets[call.userId])

(***************************************************************************)
(* C6 as stated: every allowRequest gets the verdict it gets in the run    *)
(* that makes the same allowRequest calls and no cleanup call.             *)
(***************************************************************************)
C6_CleanupKeepsDecisions == Requested => (ret.allowed = shadow.allowed)

(***************************************************************************)
(* C7 as stated, in the form a finite run decides: with no request since,  *)
(* a regular series of cleanup passes (finite, strictly advancing          *)
(* currentTime, one fixed maxIdleTime >= 0) has removed every key whose    *)
(* last request is older than the idle window and whose level as of that   *)
(* request has drained to 0 by currentTime.                                *)
(***************************************************************************)
StaleAt(bucket, currentTime, maxIdleTime, leakRate) ==
  /\ ClockVal(bucket) < currentTime.val - maxIdleTime.val
  /\ DrainedVal(bucket, currentTime.val, leakRate.val) = 0

C7_StaleKeyEvicted ==
  (Cleaned /\ shadow.sweep.regular) =>
    \A k \in DOMAIN shadow.limiter.buckets :
      StaleAt(shadow.limiter.buckets[k], call.time, call.maxIdleTime, limiter.leakRate) =>
        ~Has(limiter.buckets, k)

(***************************************************************************)
(* C8: cleanup retains a key if and only if its stored lastUpdate is       *)
(* >= currentTime - maxIdleTime or its level recomputed as of currentTime  *)
(* is > 0; the returned limiter holds no other key.                        *)
(***************************************************************************)
\* lastUpdate >= currentTime - maxIdleTime, for a finite lastUpdate
RecentAt(bucket, currentTime, maxIdleTime) ==
  IF IsNaN(currentTime) \/ IsNaN(maxIdleTime) THEN FALSE
  ELSE IF isFinite(currentTime) /\ isFinite(maxIdleTime)
  THEN ClockVal(bucket) >= currentTime.val - maxIdleTime.val
  ELSE IF isFinite(currentTime) THEN maxIdleTime = PosInf
  ELSE IF currentTime = PosInf THEN FALSE
  ELSE maxIdleTime # NegInf

\* the level recomputed as of currentTime is > 0, for a finite positive leak rate
ResidualAt(bucket, currentTime, leakRate) ==
  IF isFinite(currentTime) THEN DrainedVal(bucket, currentTime.val, leakRate.val) > 0
  ELSE IF currentTime = NegInf THEN LevelVal(bucket) > 0
  ELSE FALSE

C8_CleanupRetention ==
  Cleaned =>
    DOMAIN limiter.buckets =
      {k \in DOMAIN input.buckets :
         \/ RecentAt(input.buckets[k], call.time, call.maxIdleTime)
         \/ ResidualAt(input.buckets[k], call.time, input.leakRate)}

\* a pass that keeps an old key for its residual level alone and drops another
C8_Witness ==
  /\ Cleaned
  /\ \E k \in DOMAIN limiter.buckets :
       ~RecentAt(input.buckets[k], call.time, call.maxIdleTime)
  /\ \E k \in DOMAIN input.buckets : ~Has(limiter.buckets, k)

(***************************************************************************)
(* C9: every bucket cleanup retains is stored with                         *)
(* level = max(0, level - max(0, currentTime - lastUpdate) * leakRate) and *)
(* lastUpdate = max(lastUpdate, currentTime).                              *)
(***************************************************************************)
CleanedAs(bucket, currentTime, leakRate) ==
  IF isFinite(currentTime)
  THEN UserBucket(Fin(DrainedVal(bucket, currentTime.val, leakRate.val)),
                  Fin(Maxi(ClockVal(bucket), currentTime.val)))
  ELSE IF currentTime = NegInf THEN bucket
  ELSE IF currentTime = PosInf THEN UserBucket(Zero, PosInf)
  ELSE UserBucket(NaN, NaN)

C9_CleanupRewrite ==
  Cleaned =>
    \A k \in DOMAIN limiter.buckets :
      /\ Has(input.buckets, k)
      /\ limiter.buckets[k] = CleanedAs(input.buckets[k], call.time, input.leakRate)

\* a pass that drains one kept bucket and meets another stamped later than currentTime
C9_Witness ==
  /\ Cleaned
  /\ isFinite(call.time)
  /\ \E k \in DOMAIN limiter.buckets :
       /\ 0 < LevelVal(limiter.buckets[k])
       /\ LevelVal(limiter.buckets[k]) < LevelVal(input.buckets[k])
       /\ ClockVal(limiter.buckets[k]) = call.time.val
  /\ \E k \in DOMAIN limiter.buckets :
       /\ call.time.val < ClockVal(input.buckets[k])
       /\ limiter.buckets[k] = input.buckets[k]

(***************************************************************************)
(* C10: allowRequest on one key leaves every other key's bucket (presence, *)
(* level and lastUpdate) and the capacity and leak rate as they were.      *)
(***************************************************************************)
C10_KeyIndependence ==
  Requested =>
    /\ DOMAIN limiter.buckets \ {call.userId} = DOMAIN input.buckets \ {call.userId}
    /\ \A k \in DOMAIN input.buckets \ {call.userId} :
         limiter.buckets[k] = input.buckets[k]
    /\ limiter.capacity = input.capacity
    /\ limiter.leakRate = input.leakRate

\* a request made while another key holds a level that drainage to the same time would lower
C10_Witness ==
  /\ Requested
  /\ \E k \in DOMAIN input.buckets \ {call.userId} :
       /\ DrainedVal(input.buckets[k], call.time.val, input.leakRate.val)
            < LevelVal(input.buckets[k])
       /\ limiter.buckets[k] = input.buckets[k]

(***************************************************************************)
(* C12: allowRequest throws exactly when the key is empty or all           *)
(* whitespace, or the timestamp is NaN or +/-Infinity; the two causes have *)
(* different messages; a throwing call leaves the caller's limiter as it   *)
(* was; every other key with any finite timestamp is processed.            *)
(***************************************************************************)
Blank(s) == \A i \in 1 .. Len(s) : s[i] = " "

C12_InvalidArguments ==
  call.op = "allowRequest" =>
    /\ ret.threw = UserIdError <=> Blank(call.userId)
    /\ ret.threw = TimestampError <=> (~Blank(call.userId) /\ call.time.tag # "fin")
    /\ ret.threw = NoError <=> (~Blank(call.userId) /\ call.time.tag = "fin")
    /\ UserIdError # TimestampError
    /\ ret.threw # NoError => limiter = input

\* a timestamp error for a key with leading whitespace, on a limiter that holds buckets
C12_Witness ==
  /\ call.op = "allowRequest"
  /\ ret.threw = TimestampError
  /\ call.userId = <<" ", "b">>
  /\ DOMAIN limiter.buckets # {}

(***************************************************************************)
(* C14 as stated: the first allowRequest for a key that has no bucket is   *)
(* admitted and stores {level 1, lastUpdate timestamp}.                    *)
(***************************************************************************)
C14_FirstRequestAdmitted ==
  (Requested /\ ~Has(input.buckets, call.userId)) =>
    /\ ret.allowed
    /\ limiter.buckets[call.userId] = UserBucket(Fin(Scale), call.time)

(***************************************************************************)
(* C14 amended: the first allowRequest for a key that has no bucket is     *)
(* admitted and stores {1, timestamp} when capacity >= 1, and is rejected  *)
(* and stores {0, timestamp} when capacity < 1.                            *)
(***************************************************************************)
C14_FirstRequest ==
  (Requested /\ ~Has(input.buckets, call.userId)) =>
    IF input.capacity.val >= Scale
    THEN /\ ret.allowed
         /\ limiter.buckets[call.userId] = UserBucket(Fin(Scale), call.time)
    ELSE /\ ~ret.allowed
         /\ limiter.buckets[call.userId] = UserBucket(Fin(0), call.time)

\* a first request at a time other than 0, admitted beside another key's bucket
C14_Witness ==
  /\ Admitted
  /\ ~Has(input.buckets, call.userId)
  /\ call.time.val # 0
  /\ DOMAIN input.buckets # {}

(***************************************************************************)
(* C16: an allowRequest whose timestamp is earlier than the key's stored   *)
(* lastUpdate applies no drainage: the verdict is storedLevel + 1 <=       *)
(* capacity, the stored level is the stored level plus the admitted unit,  *)
(* and the stored lastUpdate is kept.                                      *)
(***************************************************************************)
C16_BackwardsTimestamp ==
  (/\ Requested
   /\ Has(input.buckets, call.userId)
   /\ call.time.val < ClockVal(input.buckets[call.userId])) =>
    LET stored == input.buckets[call.userId]
    IN  /\ ret.allowed <=> (LevelVal(stored) + Scale <= input.capacity.val)
        /\ limiter.buckets[call.userId] =
             UserBucket(Fin(LevelVal(stored) + (IF ret.allowed THEN Scale ELSE 0)),
                        stored.lastUpdateTime)

\* a request admitted at a backwards timestamp on a bucket that holds a level
C16_Witness ==
  /\ Admitted
  /\ Has(input.buckets, call.userId)
  /\ call.time.val < ClockVal(input.buckets[call.userId])
  /\ LevelVal(input.buckets[call.userId]) > 0

(***************************************************************************)
(* C11: after allowRequest or cleanupInactiveBuckets returns, the limiter  *)
(* object that was passed in, its Map and every bucket in it hold what     *)
(* they held before the call; the change is in the returned limiter.       *)
(***************************************************************************)
C11_InputUntouched ==
  call.op \in {"allowRequest", "cleanupInactiveBuckets"} =>
    LimiterAt(heap, heap.old) = input

\* a request on a key that has a bucket, returning a different limiter object
C11_Witness ==
  /\ Requested
  /\ Has(input.buckets, call.userId)
  /\ heap.cur # heap.old
  /\ LimiterAt(heap, heap.cur) # input
  /\ Cardinality(DOMAIN input.buckets) > 1

(***************************************************************************)
(* C15: for a bucket stored at level L with lastUpdate t0, allowRequest,   *)
(* getBucketState and cleanupInactiveBuckets at a finite time t1 >= t0 use *)
(* the level max(0, L - (t1 - t0) * leakRate), which is never negative.    *)
(***************************************************************************)
\* max(0, L - (t1 - t0) * rate), for t1 >= t0
Leaked(bucket, t1, rate) ==
  LET level == LevelVal(bucket) - ((t1 - ClockVal(bucket)) * rate) \div Scale
  IN  IF level < 0 THEN 0 ELSE level

C15_DrainCorrectness ==
  /\ (Requested /\ Has(input.buckets, call.userId)
        /\ call.time.val >= ClockVal(input.buckets[call.userId])) =>
       LET level == Leaked(input.buckets[call.userId], call.time.val, input.leakRate.val)
       IN  /\ level >= 0
           /\ ret.allowed <=> (level + Scale <= input.capacity.val)
           /\ limiter.buckets[call.userId].currentLevel =
                Fin(IF ret.allowed THEN level + Scale ELSE level)
  /\ (call.op = "getBucketState" /\ ret.state.tag = "state" /\ isFinite(call.time)
        /\ call.time.val >= ClockVal(input.buckets[call.userId])) =>
       /\ ret.state.currentLevel =
            Fin(Leaked(input.buckets[call.userId], call.time.val, input.leakRate.val))
       /\ ret.state.currentLevel.val >= 0
  /\ (Cleaned /\ isFinite(call.time)) =>
       \A k \in DOMAIN input.buckets :
         call.time.val >= ClockVal(input.buckets[k]) =>
           LET level == Leaked(input.buckets[k], call.time.val, input.leakRate.val)
           IN  IF Has(limiter.buckets, k)
               THEN limiter.buckets[k].currentLevel = Fin(level)
               ELSE level = 0

\* a projection after more time than the stored level takes to drain
C15_Witness ==
  /\ call.op = "getBucketState"
  /\ ret.state.tag = "state"
  /\ isFinite(call.time)
  /\ LevelVal(input.buckets[call.userId]) > 0
  /\ LevelVal(input.buckets[call.userId]) * Scale
       < (call.time.val - ClockVal(input.buckets[call.userId])) * input.leakRate.val
  /\ ret.state.currentLevel = Zero

(***************************************************************************)
(* C20: getBucketState never throws and never changes state: it returns    *)
(* null exactly when the key is empty or all whitespace or has no bucket,  *)
(* and with or without a time the limiter, its Map and its buckets are     *)
(* after the call what they were before.                                   *)
(***************************************************************************)
C20_GetStateReadOnly ==
  call.op = "getBucketState" =>
    /\ ret.threw = NoError
    /\ ret.state.tag = "null" <=> (Blank(call.userId) \/ ~Has(input.buckets, call.userId))
    /\ limiter = input
    /\ LimiterAt(heap, heap.cur) = input
    /\ LimiterAt(heap, heap.old) = input

\* a projection that reports a lower level than the bucket stores
C20_Witness ==
  /\ call.op = "getBucketState"
  /\ ret.state.tag = "state"
  /\ isFinite(call.time)
  /\ 0 < ret.state.currentLevel.val
  /\ ret.state.currentLevel.val < LevelVal(limiter.buckets[call.userId])

(***************************************************************************)
(* C13 as stated: createRateLimiter throws whenever capacity is not a      *)
(* finite number > 0 or leakRate is not a finite number > 0, and otherwise *)
(* returns a limiter with that capacity and leakRate and an empty Map.     *)
(***************************************************************************)
FinitePositive(x) == x.tag = "fin" /\ x.val > 0

C13_CreateValidates ==
  call.op = "createRateLimiter" =>
    IF FinitePositive(call.capacity) /\ FinitePositive(call.leakRate)
    THEN /\ ret.threw = NoError
         /\ limiter = RateLimiter(call.capacity, call.leakRate, EmptyMap)
    ELSE ret.threw \in {CapacityError, LeakRateError}

(***************************************************************************)
(* C17: in a burst of n requests for one key at one timestamp, starting    *)
(* from no bucket, the i-th request is admitted exactly when               *)
(* i <= capacity, the admitted requests are the first ones, and the stored *)
(* level is the number of admitted requests, also after the rejections.    *)
(***************************************************************************)
C17_Burst ==
  history.burst.live =>
    LET burst == history.burst
    IN  /\ Requested
        /\ ret.allowed <=> (burst.n * Scale <= limiter.capacity.val)
        /\ burst.admitted =
             Cardinality({i \in 1 .. burst.n : i * Scale <= limiter.capacity.val})
        /\ limiter.buckets[burst.userId] = UserBucket(Fin(burst.admitted * Scale), burst.time)

\* a burst with two admitted requests followed by two rejected ones
C17_Witness ==
  /\ history.burst.live
  /\ history.burst.admitted = 2
  /\ history.burst.n = 4
  /\ Rejected

RECURSIVE AdmittedIn(_, _, _)
AdmittedIn(admits, t0, t1) ==
  IF t0 > t1 THEN 0 ELSE admits[t0] + AdmittedIn(admits, t0 + 1, t1)

C19_Throughput ==
  \A userId \in ValidUserIds, t0 \in TimeUnits, t1 \in TimeUnits :
    t0 <= t1 =>
      AdmittedIn(history.admits[userId], t0, t1) * Scale
        <= limiter.capacity.val + limiter.leakRate.val * (t1 - t0)

\* a key that used its whole allowance over more than one time unit, with a cleanup call made
C19_Witness ==
  /\ history.swept
  /\ \E userId \in ValidUserIds, t0 \in TimeUnits, t1 \in TimeUnits :
       /\ t0 < t1
       /\ history.admits[userId][t1] > 0
       /\ AdmittedIn(history.admits[userId], t0, t1) * Scale
            = limiter.capacity.val + limiter.leakRate.val * (t1 - t0)

(***************************************************************************)
(* C21: for a key with a bucket, getBucketState without a time returns the *)
(* stored level and lastUpdate (with the key, capacity and leakRate); with *)
(* a time t it returns the level                                           *)
(* max(0, storedLevel - max(0, t - storedLastUpdate) * leakRate), without  *)
(* the unit of a request, and the stored lastUpdate.                       *)
(***************************************************************************)
\* max(0, level - max(0, t - lastUpdate) * rate) for any number t and a finite positive rate
ProjectedAt(bucket, t, rate) ==
  IF isFinite(t) THEN Fin(DrainedVal(bucket, t.val, rate.val))
  ELSE IF t = PosInf THEN Zero
  ELSE IF t = NegInf THEN bucket.currentLevel
  ELSE NaN

C21_GetStateValues ==
  (call.op = "getBucketState" /\ ~Blank(call.userId) /\ Has(input.buckets, call.userId)) =>
    LET stored == input.buckets[call.userId]
    IN  /\ ret.state.tag = "state"
        /\ ret.state.userId = call.userId
        /\ ret.state.capacity = input.capacity
        /\ ret.state.leakRate = input.leakRate
        /\ ret.state.lastUpdateTime = stored.lastUpdateTime
        /\ ret.state.currentLevel =
             IF call.time.tag = "undefined" THEN stored.currentLevel
             ELSE ProjectedAt(stored, call.time, input.leakRate)

\* a call without a time on a bucket that a call at the latest time would report lower
C21_Witness ==
  /\ call.op = "getBucketState"
  /\ call.time.tag = "undefined"
  /\ ret.state.tag = "state"
  /\ ret.state.currentLevel.val >
       DrainedVal(input.buckets[call.userId], MaxTime * Scale, input.leakRate.val)
  /\ ret.state.lastUpdateTime # Zero

(***************************************************************************)
(* C23: cleanupInactiveBuckets on a limiter with no buckets returns a      *)
(* limiter with no buckets and the same capacity and leakRate, for any     *)
(* currentTime and maxIdleTime.                                            *)
(***************************************************************************)
C23_CleanupOfEmpty ==
  (Cleaned /\ DOMAIN input.buckets = {}) =>
    /\ DOMAIN limiter.buckets = {}
    /\ limiter.capacity = input.capacity
    /\ limiter.leakRate = input.leakRate

\* a pass over an empty limiter with a currentTime that is not a time
C23_Witness ==
  /\ Cleaned
  /\ DOMAIN input.buckets = {}
  /\ IsNaN(call.time)
  /\ call.maxIdleTime = PosInf

(***************************************************************************)
(* C26: cleanupInactiveBuckets is idempotent: a second pass with the same  *)
(* currentTime and maxIdleTime returns the keys, levels and lastUpdates of *)
(* the first.                                                              *)
(***************************************************************************)
C26_CleanupIdempotent ==
  Cleaned =>
    LET again == cleanupInactiveBuckets(limiter, call.time, call.maxIdleTime)
    IN  /\ DOMAIN again.buckets = DOMAIN limiter.buckets
        /\ \A k \in DOMAIN limiter.buckets : again.buckets[k] = limiter.buckets[k]

\* a pass that drained a bucket it kept and dropped another key
C26_Witness ==
  /\ Cleaned
  /\ \E k \in DOMAIN limiter.buckets :
       /\ 0 < LevelVal(limiter.buckets[k])
       /\ LevelVal(limiter.buckets[k]) < LevelVal(input.buckets[k])
  /\ \E k \in DOMAIN input.buckets : ~Has(limiter.buckets, k)
  /\ call.maxIdleTime = Zero

C28_CleanupAgreesWithProjection ==
  Cleaned =>
    \A k \in DOMAIN input.buckets :
      LET projected == getBucketState(input, k, call.time).currentLevel
      IN  IF Has(limiter.buckets, k)
          THEN limiter.buckets[k].currentLevel = projected
          ELSE projected = Zero

(***************************************************************************)
(* C29: allowRequest returns the keys of its input plus the requested key, *)
(* also when it rejects; cleanupInactiveBuckets returns a subset of the    *)
(* keys of its input.                                                      *)
(***************************************************************************)
C29_OnlyCleanupShrinks ==
  /\ Requested => DOMAIN limiter.buckets = DOMAIN input.buckets \cup {call.userId}
  /\ Cleaned => DOMAIN limiter.buckets \subseteq DOMAIN input.buckets

\* a rejected request that created the bucket of a new key beside another key
C29_Witness ==
  /\ Rejected
  /\ ~Has(input.buckets, call.userId)
  /\ Has(limiter.buckets, call.userId)
  /\ DOMAIN input.buckets # {}

(***************************************************************************)
(* C24 as stated: whenever a key has a bucket in two states of a run of    *)
(* allowRequest and cleanupInactiveBuckets calls, its lastUpdate in the    *)
(* later state is >= its lastUpdate in the earlier one, also when the key  *)
(* was removed and created again in between.                               *)
(***************************************************************************)
C24_ClockAcrossEviction ==
  \A userId \in DOMAIN limiter.buckets :
    Has(history.seen, userId) =>
      ClockVal(limiter.buckets[userId]) >= history.seen[userId].val

(***************************************************************************)
(* C25 as stated: after a rejected allowRequest at t1, every later         *)
(* allowRequest on that key with a timestamp >= t1 gets the verdict and    *)
(* stores the level it gets in the run where the rejected call was never   *)
(* made.                                                                   *)
(***************************************************************************)
C25_RejectionHasNoEffect ==
  (/\ Requested
   /\ history.skipped.done
   /\ history.skipped.twin
   /\ call.userId = history.skipped.userId) =>
    /\ ret.allowed = shadow.allowed
    /\ limiter.buckets[call.userId].currentLevel =
         shadow.limiter.buckets[call.userId].currentLevel

(***************************************************************************)
(* C22: with serialized writers that publish the limiter a call returned   *)
(* by replacing the shared reference, the limiter a reader took from the   *)
(* reference is, at every moment, the mapping a completed call returned    *)
(* (or the initial one), every bucket in it was built by one completed     *)
(* call, and the currentLevel and lastUpdateTime the reader read are those *)
(* of one such bucket of its key.                                          *)
(***************************************************************************)
C22_ReaderSeesCompletedCalls ==
  LET r == shared.reader
      seen == LimiterAt(heap, r.limiter)
  IN  /\ r.pc # "idle" =>
           /\ r.limiter \in DOMAIN shared.published
           /\ seen = shared.published[r.limiter]
           /\ \A userId \in DOMAIN seen.buckets :
                <<userId, seen.buckets[userId]>> \in shared.produced
      /\ r.pc = "done" =>
           <<r.userId, UserBucket(r.currentLevel, r.lastUpdateTime)>> \in shared.produced

\* an observation completed on the limiter that the running call, past its set
\* for the same key, is about to replace
C22_Witness ==
  /\ shared.reader.pc = "done"
  /\ shared.writer.pc \in {"return", "publish"}
  /\ shared.writer.userId = shared.reader.userId
  /\ shared.reader.limiter = heap.cur
  /\ shared.writes >= 1

====
